---- MODULE Spec2Model ----
(***************************************************************************)
(* A model of the rendering engine of src/sticker_bot.py (StickerMakerBot): *)
(* the font resolver (load_font / download_font), the image normaliser     *)
(* inside image_to_sticker and add_text_to_image, the meme composer, the    *)
(* quote composer with its word-wrap loop, and apply_image_filter.          *)
(*                                                                         *)
(* Six specifications share the variables:                                  *)
(*   Spec      one engine call at a time on a deployment whose font         *)
(*             candidates start absent; the inputs of a call are drawn      *)
(*             from bounded sets;                                           *)
(*   SpecFont  load_font alone against every bounded configuration of the   *)
(*             candidate files and of the network;                          *)
(*   SpecBot   the handlers start, handle_media, memify_image,              *)
(*             create_quote and kang_sticker, one update at a time, with    *)
(*             the counters of user_stats;                                  *)
(*   SpecLoop  the handlers as coroutines on the thread of the event loop,  *)
(*             with the requests download_font makes;                       *)
(*   SpecAdmin the owner and admin commands against every bounded setting   *)
(*             of OWNER_ID and ADMIN_IDS, /broadcast one await at a time;   *)
(*   SpecAdminFair  SpecAdmin where a broadcast in progress goes on.        *)
(***************************************************************************)
EXTENDS Integers, Sequences, FiniteSets, TLC

VARIABLES
    pc,     \* "idle": no engine call in progress; "done": a call has returned
    call,   \* the arguments of the last engine call
    ret,    \* what that call returned, and what it drew on the way
    fs,     \* candidate font path -> "absent" | "good" | "corrupt"
    net,    \* font URL -> what requests.get of it does now
    fontsDir, \* the "fonts" directory: "writable" | "readonly" | "blocked"
    fontlog,  \* the load_font calls made by the last engine call, in order
    stored,   \* TRUE while the file a download stored and loaded is in place
    user_stats, \* self.user_stats: user id -> the counters kept for the user
    update,   \* the update the handler in progress was called with
    replies,  \* what that handler sent back, in order
    thread,   \* the request whose code occupies the event-loop thread, or 0
    task,     \* request -> where its handler stands on the event loop
    config,   \* OWNER_ID and ADMIN_IDS as the process read them at its start
    cast,     \* the /broadcast in progress: its loop, its counts, its sends
    exited    \* TRUE once os._exit was called

botvars == <<user_stats, update, replies>>
loopvars == <<thread, task>>
adminvars == <<config, cast, exited>>
vars == <<pc, call, ret, fs, net, fontsDir, fontlog, stored, user_stats,
          update, replies, thread, task, config, cast, exited>>

----------------------------------------------------------------------------
(* Bounds of the model.                                                    *)

\* longest caption given to the meme composer, in text symbols
MaxMemeLen == 3
\* longest body text given to the quote composer, in text symbols
MaxQuoteLen == 7
\* a text symbol "a" stands for a run of RunLen glyphs, each one em wide
RunLen == 5
\* how many candidate font files exist when SpecFont starts
MaxPresent == 2
\* most words in a long quote body
MaxWords == 8
\* how many counted requests (all users, all counters) are followed
MaxCount == 2

----------------------------------------------------------------------------
(* Text.  A text is a sequence of symbols: "a" (a run of glyphs), " " and  *)
(* "\n" (both whitespace to str.split()).  A text typed after a command     *)
(* may also hold "\\n": the two characters backslash and n.                 *)

Sym == {"a", " ", "\n"}
CmdSym == Sym \cup {"\\n"}

TextsUpTo(n) == UNION {[1..k -> Sym] : k \in 0..n}

IsSpace(c) == c \in {" ", "\n"}

\* str.split(): the maximal runs of non-whitespace, in order; no empty word
RECURSIVE SplitWs(_, _)
SplitWs(t, cur) ==
    IF t = <<>> THEN (IF cur = <<>> THEN <<>> ELSE <<cur>>)
    ELSE IF IsSpace(Head(t))
         THEN (IF cur = <<>> THEN <<>> ELSE <<cur>>) \o SplitWs(Tail(t), <<>>)
         ELSE SplitWs(Tail(t), Append(cur, Head(t)))

split(t) == SplitWs(t, <<>>)

\* str.split('\n'): cut at every line break; empty pieces are kept
RECURSIVE SplitNl(_, _)
SplitNl(t, cur) ==
    IF t = <<>> THEN <<cur>>
    ELSE IF Head(t) = "\n"
         THEN <<cur>> \o SplitNl(Tail(t), <<>>)
         ELSE SplitNl(Tail(t), Append(cur, Head(t)))

HasNl(t) == \E i \in 1..Len(t) : t[i] = "\n"

\* ' '.join(words)
RECURSIVE join(_)
join(ws) ==
    IF ws = <<>> THEN <<>>
    ELSE IF Len(ws) = 1 THEN ws[1]
    ELSE ws[1] \o <<" ">> \o join(Tail(ws))

----------------------------------------------------------------------------
(* Fonts.  A FontHandle is [kind, path, size]: kind "truetype" (loaded     *)
(* from candidate `path`) or "builtin" (ImageFont.load_default(), path 0). *)
(* Metrics: a truetype font scales with its size and its bounding boxes    *)
(* start below the anchor (the ascender gap); the built-in bitmap font has *)
(* fixed 6x11 cells and boxes that start at the anchor.                    *)

Builtin == [kind |-> "builtin", path |-> 0, size |-> 0]
TrueType(p, s) == [kind |-> "truetype", path |-> p, size |-> s]

\* "q" is the quotation mark and "-" the dash the quote card draws; a
\* backslash and an n are two glyphs
Advance(c, font) ==
    IF font.kind = "truetype"
    THEN (CASE c = "a" -> RunLen * font.size
            [] c = " " -> font.size \div 4
            [] c \in {"q", "-"} -> font.size \div 2
            [] c = "\\n" -> font.size)
    ELSE (CASE c = "a" -> RunLen * 6
            [] c \in {" ", "q", "-"} -> 6
            [] c = "\\n" -> 12)

RECURSIVE SumAdvance(_, _)
SumAdvance(s, font) ==
    IF s = <<>> THEN 0 ELSE Advance(Head(s), font) + SumAdvance(Tail(s), font)

\* draw.textbbox((0, 0), s, font=font) -> <<left, top, right, bottom>>
textbbox(s, font) ==
    IF s = <<>> THEN <<0, 0, 0, 0>>
    ELSE IF font.kind = "truetype"
         THEN <<0, font.size \div 5, SumAdvance(s, font), font.size>>
         ELSE <<0, 0, SumAdvance(s, font), 11>>

----------------------------------------------------------------------------
(* The font resolver.  font_paths = termux_fonts + system_fonts +          *)
(* local_fonts, numbered 1..9 in that order; download_font stores what it  *)
(* fetched at "fonts/Roboto-Regular.ttf", which is local_fonts[0].          *)

termux_fonts == <<1, 2, 3>>
system_fonts == <<4, 5, 6>>
local_fonts == <<7, 8, 9>>
font_paths == termux_fonts \o system_fonts \o local_fonts
font_urls == <<1, 2>>
\* a download stored where load_font never looks
font_path_unlisted == Len(font_paths) + 1

\* download_font's font_path, as an entry of font_paths
font_path == 7

\* the candidates load_font tries before path fp
EarlierPaths(fp) ==
    {font_paths[i] : i \in {k \in 1..Len(font_paths) :
                               \A j \in 1..k : font_paths[j] # fp}}

Paths == {font_paths[i] : i \in 1..Len(font_paths)}
Urls == {font_urls[i] : i \in 1..Len(font_urls)}
\* the candidates that live inside the "fonts" directory
InFontsDir == {7, 8}

FileStates == {"absent", "good", "corrupt"}
\* requests.get: raises (timeout, no route), answers with another status,
\* answers 200 with a font file, answers 200 with something else
NetOutcomes == {"timeout", "http_error", "ok_font", "ok_junk"}

\* The loop of download_font from the k-th URL on.  Result: the font
\* returned, the files afterwards, and the events so far.
RECURSIVE DownloadFrom(_, _, _, _, _, _)
DownloadFrom(k, size, fsv, netv, dirv, trace) ==
    IF k > Len(font_urls)
    THEN [font |-> Builtin, fs |-> fsv, trace |-> trace]
    ELSE LET url == font_urls[k]
             t1  == Append(trace, <<"get", url>>)
         IN CASE netv[url] = "timeout" ->
                     DownloadFrom(k + 1, size, fsv, netv, dirv, t1)
              [] netv[url] = "http_error" ->
                     DownloadFrom(k + 1, size, fsv, netv, dirv, t1)
              [] netv[url] \in {"ok_font", "ok_junk"} ->
                     IF dirv # "writable"
                     THEN \* open(font_path, "wb") raises: next URL
                          DownloadFrom(k + 1, size, fsv, netv, dirv, t1)
                     ELSE LET fs2 == [fsv EXCEPT ![font_path] =
                                         IF netv[url] = "ok_font"
                                         THEN "good" ELSE "corrupt"]
                              t2  == Append(t1, <<"write", font_path>>)
                          IN IF netv[url] = "ok_font"
                             THEN [font |-> TrueType(font_path, size),
                                   fs |-> fs2, trace |-> t2]
                             ELSE DownloadFrom(k + 1, size, fs2, netv, dirv, t2)

\* no handle: the call raised instead of returning
NoFont == [kind |-> "none", path |-> 0, size |-> 0]

\* download_font(size): os.makedirs is outside every try, so its error
\* leaves the function (raised); otherwise the loop's result
download_font(size, fsv, netv, dirv, trace) ==
    IF dirv = "blocked"
    THEN [font |-> NoFont, fs |-> fsv,
          trace |-> Append(trace, <<"mkdir", 0>>), raised |-> TRUE]
    ELSE [raised |-> FALSE] @@ DownloadFrom(1, size, fsv, netv, dirv, trace)

\* load_font without the handler: the error goes on to the caller
OnDownloadErrorReraise(d) == d

\* the handler around load_font's call of download_font:
\*   try: return await self.download_font(size)
\*   except: return ImageFont.load_default()
OnDownloadError(d) ==
    IF d.raised THEN [d EXCEPT !.font = Builtin, !.raised = FALSE] ELSE d

\* The loop of load_font over font_paths from the i-th path on.
RECURSIVE LoadFrom(_, _, _, _, _, _)
LoadFrom(i, size, fsv, netv, dirv, trace) ==
    IF i > Len(font_paths)
    THEN OnDownloadError(download_font(size, fsv, netv, dirv, trace))
    ELSE LET p == font_paths[i]
         IN CASE fsv[p] = "absent" ->
                     LoadFrom(i + 1, size, fsv, netv, dirv, trace)
              [] fsv[p] = "corrupt" ->
                     LoadFrom(i + 1, size, fsv, netv, dirv,
                              Append(trace, <<"open", p>>))
              [] fsv[p] = "good" ->
                     [font |-> TrueType(p, size), fs |-> fsv,
                      trace |-> Append(trace, <<"open", p>>), raised |-> FALSE]

\* load_font(size) in the environment (fsv, netv, dirv)
load_font(size, fsv, netv, dirv) == LoadFrom(1, size, fsv, netv, dirv, <<>>)

\* the record fontlog keeps of one load_font call: its result, the files
\* before it, and whether a stored download was in place before it
LogEntry(size, fsv, st, r) ==
    [size |-> size, font |-> r.font, trace |-> r.trace, raised |-> r.raised,
     before |-> fsv, after |-> r.fs, storedBefore |-> st]

\* whether a call ended in a download that was stored and loaded
Downloaded(r) == r.font.kind = "truetype" /\ <<"write", font_path>> \in
                     {r.trace[j] : j \in 1..Len(r.trace)}

----------------------------------------------------------------------------
(* Images.  An image is [mode, w, h, px, trns]: px is the band values of   *)
(* a representative pixel in the image's own mode (RGB <<r,g,b>>, RGBA     *)
(* <<r,g,b,a>>, L <<l>>, LA <<l,a>>, P the palette colour <<r,g,b>> of the *)
(* pixel's index, CMYK <<c,m,y,k>>); trns says that a P pixel's index is   *)
(* the palette's transparent one.                                          *)

Modes == {"RGB", "RGBA", "LA", "P", "L", "CMYK"}
Dims == {1, 200, 512, 1024, 1025}
Alphas == {0, 128, 255}

PixelsOf(m) ==
    CASE m = "RGB"  -> {<<200, 100, 50>>}
      [] m = "RGBA" -> {<<200, 100, 50, a>> : a \in Alphas}
      [] m = "L"    -> {<<100>>}
      [] m = "LA"   -> {<<100, a>> : a \in Alphas}
      [] m = "P"    -> {<<200, 100, 50>>}
      [] m = "CMYK" -> {<<50, 100, 200, 0>>}

Images ==
    UNION {[mode : {m}, w : Dims, h : Dims, px : PixelsOf(m),
            trns : IF m = "P" THEN BOOLEAN ELSE {FALSE}] : m \in Modes}

\* bytes Image.open cannot decode
Undecodable == [mode |-> "undecodable", w |-> 0, h |-> 0, px |-> <<>>,
                trns |-> FALSE]
\* no image at all
NoImage == [mode |-> "none", w |-> 0, h |-> 0, px |-> <<>>, trns |-> FALSE]

Max(a, b) == IF a >= b THEN a ELSE b
Abs(a) == IF a >= 0 THEN a ELSE 0 - a

\* Pillow's 8-bit x*y/255 with rounding
MULDIV255(a, b) == LET tmp == a * b + 128 IN ((tmp \div 256) + tmp) \div 256

\* Pillow's paste through an L mask: dst*(255-mask) + src*mask, over 255
BLEND8(mask, dst, src) ==
    LET tmp == dst * (255 - mask) + src * mask + 128
    IN ((tmp \div 256) + tmp) \div 256

\* the colour of the background the code creates, on every channel
white == 255

\* Image.paste / Image.convert of a pixel into an RGB image without a mask:
\* the colour bands are taken, an alpha band or a palette transparency is
\* dropped
ToRGB(m, px) ==
    CASE m = "RGB"  -> px
      [] m = "RGBA" -> <<px[1], px[2], px[3]>>
      [] m = "L"    -> <<px[1], px[1], px[1]>>
      [] m = "LA"   -> <<px[1], px[1], px[1]>>
      [] m = "P"    -> px
      [] m = "CMYK" -> LET nk == 255 - px[4]
                       IN <<nk - MULDIV255(px[1], nk), nk - MULDIV255(px[2], nk),
                            nk - MULDIV255(px[3], nk)>>

\* the mask of the paste: the alpha band for RGBA, None for every other mode
PasteMask(m, px) == IF m = "RGBA" THEN px[4] ELSE 255

\* "Convert to RGB if necessary": RGBA, LA and P are pasted onto a white
\* RGB background of the same size
Flatten(img) ==
    IF img.mode \in {"RGBA", "LA", "P"}
    THEN LET src  == ToRGB(img.mode, img.px)
             mask == PasteMask(img.mode, img.px)
         IN [img EXCEPT !.mode = "RGB", !.trns = FALSE,
                        !.px = <<BLEND8(mask, white, src[1]),
                                 BLEND8(mask, white, src[2]),
                                 BLEND8(mask, white, src[3])>>]
    ELSE img

\* max_size = (512, 512)
max_size == 512

\* Image.thumbnail's round_aspect for the width: floor or ceiling of
\* y * aspect, whichever is nearer the aspect ratio, and at least 1
RoundAspectX(w, h, y) ==
    LET fl == (y * w) \div h
        ce == IF fl * h = y * w THEN fl ELSE fl + 1
        key(n) == Abs(y * w - n * h)
    IN Max(IF key(fl) <= key(ce) THEN fl ELSE ce, 1)

\* the same for the height: floor or ceiling of x / aspect
RoundAspectY(w, h, x) ==
    LET fl == (x * h) \div w
        ce == IF fl * w = x * h THEN fl ELSE fl + 1
        \* key(n) = 0 if n == 0 else abs(aspect - x / n), compared by
        \* cross-multiplication
        flFirst == IF fl = 0 THEN TRUE
                   ELSE Abs(w * fl - x * h) * ce <= Abs(w * ce - x * h) * fl
    IN Max(IF flFirst THEN fl ELSE ce, 1)

\* a resize to fit max_size whatever the size, as Image.resize would do
thumbnail_always(w, h) ==
    IF h >= w
    THEN <<RoundAspectX(w, h, max_size), max_size>>
    ELSE <<max_size, RoundAspectY(w, h, max_size)>>

\* image.thumbnail(max_size, LANCZOS): the size afterwards
thumbnail(w, h) ==
    IF max_size >= w /\ max_size >= h THEN <<w, h>>
    ELSE IF h >= w  \* x / y >= aspect
         THEN <<RoundAspectX(w, h, max_size), max_size>>
         ELSE <<max_size, RoundAspectY(w, h, max_size)>>

Resize(img) ==
    LET t == thumbnail(img.w, img.h) IN [img EXCEPT !.w = t[1], !.h = t[2]]

\* the modes image.save(output, format="PNG") can write
PngModes == {"RGB", "RGBA", "L", "LA", "P"}

----------------------------------------------------------------------------
(* What an engine call returns.  ok: encoded bytes were returned (FALSE:   *)
(* None); out: the image those bytes hold (NoImage with None); image: the  *)
(* image handed to the encoder; flat: the image after the conversion step; *)
(* content: its size after thumbnail; offset: where the content was pasted *)
(* on the square; lines: the lines the text was laid out in; drawn: the    *)
(* draw.text calls, in order; opens: the Image.open calls made.            *)

NoRet == [ok |-> FALSE, out |-> NoImage, image |-> NoImage, flat |-> NoImage,
          content |-> <<0, 0>>, offset |-> <<0, 0>>,
          lines |-> <<>>, drawn |-> <<>>, opens |-> 0]

\* an exception at or after Image.open(image_bytes): the except around the
\* whole function logs it and returns None
ReturnsNone == [NoRet EXCEPT !.opens = 1]

\* an encoder whose error path hands back the buffer written so far
EncodeKeepsBuffer(r) ==
    [r EXCEPT !.ok = (r.image.mode \in PngModes), !.out = r.image]

\* image.save(output, format="PNG"); return output.  save raises for a mode
\* PNG cannot hold, and the except around the whole function returns None
Encode(r) ==
    IF r.image.mode \in PngModes
    THEN [r EXCEPT !.ok = TRUE, !.out = r.image]
    ELSE [r EXCEPT !.ok = FALSE, !.out = NoImage]

\* the content pasted at the corner instead of the centre
PasteOffsetCorner(size, w, h) == <<0, 0>>

\* offset = ((size - image.width) // 2, (size - image.height) // 2)
PasteOffset(size, w, h) == <<(size - w) \div 2, (size - h) \div 2>>

\* image_to_sticker(image_bytes)
image_to_sticker(img) ==
    IF img.mode = "undecodable" THEN ReturnsNone
    ELSE LET flat == Flatten(img)
             th   == Resize(flat)
         IN IF th.w # th.h
            THEN LET size   == Max(th.w, th.h)
                     offset == PasteOffset(size, th.w, th.h)
                     square == [mode |-> "RGB", w |-> size, h |-> size,
                                px |-> ToRGB(th.mode, th.px), trns |-> FALSE]
                 IN Encode([NoRet EXCEPT !.opens = 1,
                                         !.image = square, !.flat = flat,
                                         !.content = <<th.w, th.h>>,
                                         !.offset = offset])
            ELSE Encode([NoRet EXCEPT !.opens = 1, !.image = th, !.flat = flat,
                                      !.content = <<th.w, th.h>>])

\* the callers' handler around load_font:
\*   try: font = await self.load_font(40)
\*   except: font = ImageFont.load_default()
OnLoadError(r) == IF r.raised THEN Builtin ELSE r.font

\* lines = text.split('\n') if '\n' in text else [text]
MemeLines(text) == IF HasNl(text) THEN SplitNl(text, <<>>) ELSE <<text>>

\* one draw.text((x, y), s, font=font, ...) call
Draw(s, x, y, font) == [s |-> s, x |-> x, y |-> y, font |-> font]

\* the bottom caption placed by its height instead of its box's bottom
BottomYByHeight(h, bbox) == h - (bbox[4] - bbox[2]) - 10

\* the y of the bottom caption: image.height - bbox[3] - 10
BottomY(h, bbox) == h - bbox[4] - 10

\* the placement part of add_text_to_image: the draw.text calls
MemeDraws(image, lines, font) ==
    IF Len(lines) >= 2
    THEN LET top_line    == lines[1]
             tb          == textbbox(top_line, font)
             bottom_line == lines[2]
             bb          == textbbox(bottom_line, font)
         IN << Draw(top_line, (image.w - (tb[3] - tb[1])) \div 2, 10, font),
               Draw(bottom_line, (image.w - (bb[3] - bb[1])) \div 2,
                    BottomY(image.h, bb), font) >>
    ELSE LET line == lines[1]
             bbox == textbbox(line, font)
             text_width  == bbox[3] - bbox[1]
             text_height == bbox[4] - bbox[2]
         IN << Draw(line, (image.w - text_width) \div 2,
                    (image.h - text_height) \div 2, font) >>

\* add_text_to_image(image_bytes, text) with the font load_font(40) gave
add_text_to_image(img, text, font) ==
    IF img.mode = "undecodable" THEN ReturnsNone
    ELSE LET flat  == Flatten(img)
             image == Resize(flat)
             lines == MemeLines(text)
         IN Encode([NoRet EXCEPT !.opens = 1, !.image = image, !.flat = flat,
                                 !.content = <<image.w, image.h>>,
                                 !.lines = lines,
                                 !.drawn = MemeDraws(image, lines, font)])

----------------------------------------------------------------------------
(* apply_image_filter.                                                     *)

\* Image.convert("L") of an RGB pixel (ITU-R 601-2 luma, 16-bit fixed point)
Luma(rgb) ==
    (rgb[1] * 19595 + rgb[2] * 38470 + rgb[3] * 7471 + 32768) \div 65536

\* ImageOps.posterize(image, 3): keep the 3 high bits, so multiples of 32
Posterize(x) == (x \div 32) * 32
\* ImageOps.solarize(image, threshold=128)
Solarize(x) == IF x < 128 THEN x ELSE 255 - x

Invert(x) == 255 - x

\* the transforms applied to every band of a pixel
InvertPx(px) == [i \in 1..Len(px) |-> Invert(px[i])]
PosterizePx(px) == [i \in 1..Len(px) |-> Posterize(px[i])]
SolarizePx(px) == [i \in 1..Len(px) |-> Solarize(px[i])]

\* the filter names the code recognises
FilterNames == {"grayscale", "invert", "posterize", "solarize"}
\* "sepia" and "" stand for the names it does not
FilterInputs == FilterNames \cup {"sepia", ""}

\* a grayscale that only converts to RGB and keeps the colour
GrayscaleKeepsColour(img) ==
    [img EXCEPT !.mode = "RGB", !.trns = FALSE, !.px = ToRGB(img.mode, img.px)]

\* ImageOps.grayscale(image): image.convert("L"), one luminance band
Grayscale(img) ==
    [img EXCEPT !.mode = "L", !.trns = FALSE,
                !.px = <<Luma(ToRGB(img.mode, img.px))>>]

\* the if/elif chain of apply_image_filter: [raised, image]
Filtered(img, filter_type) ==
    CASE filter_type = "grayscale" ->
             [raised |-> FALSE, image |-> Grayscale(img)]
      [] filter_type = "invert" ->
             [raised |-> FALSE,
              image |-> [img EXCEPT !.mode = "RGB", !.trns = FALSE,
                                    !.px = InvertPx(ToRGB(img.mode, img.px))]]
      [] filter_type \in {"posterize", "solarize"} ->
             \* ImageOps._lut takes L and RGB only and raises for the rest
             IF img.mode \in {"L", "RGB"}
             THEN [raised |-> FALSE,
                   image |-> [img EXCEPT !.px =
                       IF filter_type = "posterize"
                       THEN PosterizePx(img.px) ELSE SolarizePx(img.px)]]
             ELSE [raised |-> TRUE, image |-> NoImage]
      [] OTHER -> \* else: filtered_image = image
             [raised |-> FALSE, image |-> img]

\* apply_image_filter(image_bytes, filter_type)
apply_image_filter(img, filter_type) ==
    IF img.mode = "undecodable" THEN ReturnsNone
    ELSE LET f == Filtered(img, filter_type)
         IN IF f.raised THEN ReturnsNone
            ELSE Encode([NoRet EXCEPT !.opens = 1, !.image = f.image])

----------------------------------------------------------------------------
(* The quote composer.                                                     *)

\* width, height = 512, 512
width == 512
height == 512

\* the margin forgotten in the overflow test
OverflowsNoMargin(line_width) == line_width > width

\* if line_width > width - 100:  # 50px margin on each side
Overflows(line_width) == line_width > width - 100

\* the overflowing word left behind when its line is closed
CarryNothing(word) == <<>>

\* current_line = [word]: the overflowing word starts the next line
Carry(word) == <<word>>

\* the word-wrap loop of generate_quote_image from the remaining words on
RECURSIVE WrapLoop(_, _, _, _)
WrapLoop(words, lines, current_line, font) ==
    IF words = <<>>
    THEN IF current_line # <<>> THEN Append(lines, join(current_line)) ELSE lines
    ELSE LET word       == Head(words)
             appended   == Append(current_line, word)
             bbox       == textbbox(join(appended), font)
             line_width == bbox[3] - bbox[1]
         IN IF Overflows(line_width)
            THEN \* current_line.pop(); lines.append(...); current_line = [word]
                 WrapLoop(Tail(words), Append(lines, join(current_line)),
                          Carry(word), font)
            ELSE WrapLoop(Tail(words), lines, appended, font)

\* words = text.split() and the loop
Wrap(text, font) == WrapLoop(split(text), <<>>, <<>>, font)

\* a slice that keeps every line
TakeAll(s, n) == s

\* lines[:6]
Take(s, n) == IF Len(s) <= n THEN s ELSE SubSeq(s, 1, n)

\* the body lines as drawn: y = 100, then y += 40 per line
BodyDraws(lines, font) ==
    [i \in 1..Len(Take(lines, 6)) |->
        LET bbox == textbbox(lines[i], font)
        IN Draw(lines[i], (width - (bbox[3] - bbox[1])) \div 2,
                100 + 40 * (i - 1), font)]

\* author_text = f"- {author}", right-aligned 50 px from the edge
AuthorDraw(author, font) ==
    LET author_text == <<"-", " ">> \o author
        bbox == textbbox(author_text, font)
    IN Draw(author_text, width - (bbox[3] - bbox[1]) - 50, height - 80, font)

\* generate_quote_image(text, author) with the fonts load_font(28) and
\* load_font(18) gave
generate_quote_image(text, author, font_large, font_small) ==
    LET lines == Wrap(text, font_large)
        image == [mode |-> "RGB", w |-> width, h |-> height,
                  px |-> <<240, 248, 255>>, trns |-> FALSE]
    IN Encode([NoRet EXCEPT
           !.image = image, !.content = <<width, height>>, !.lines = lines,
           !.drawn = << Draw(<<"q">>, 40, 40, font_large),
                        Draw(<<"q">>, width - 80, height - 80, font_large) >>
                     \o BodyDraws(lines, font_large)
                     \o << AuthorDraw(author, font_small) >>])

----------------------------------------------------------------------------
(* The state machine.                                                      *)

NoCall == [op |-> "none", image |-> NoImage, text |-> <<>>, author |-> <<>>,
           filter_type |-> "", size |-> 0]

ImageInputs == Images \cup {Undecodable}
\* k copies of the word w, one space between them
Repeat(w, k) == join([i \in 1..k |-> w])
\* bodies of up to MaxWords words, each two runs long: more lines than the
\* card shows once every word needs a line of its own
LongTexts == {Repeat(<<"a", "a">>, k) : k \in 1..MaxWords}
QuoteTexts == TextsUpTo(MaxQuoteLen) \cup LongTexts
Authors == {<<"a">>, <<"a", " ", "a">>}
\* the sizes the composers ask load_font for
FontSizes == {18, 28, 40}

\* what the network does when the engine specification starts: down; up;
\* first URL moved and the second answering with a page that is no font
NetStart == { [u \in Urls |-> "timeout"], [u \in Urls |-> "ok_font"],
              [u \in Urls |-> IF u = 1 THEN "http_error" ELSE "ok_junk"] }

\* the users that write to the bot, and the requests the event loop serves
Users == {1, 2}
Reqs == {1, 2, 3}

\* self.user_stats[user_id]; known = FALSE: the id is not a key; seq: the
\* place of the key in the dict's insertion order
NoStats == [known |-> FALSE, seq |-> 0, sticker_count |-> 0,
            memes_created |-> 0, quotes_created |-> 0]
NewStats == [NoStats EXCEPT !.known = TRUE]

\* len(self.user_stats)
NumUsers(us) == Cardinality({u \in Users : us[u].known})
\* self.user_stats.keys(): the keys in insertion order
Keys(us) ==
    [i \in 1..NumUsers(us) |-> CHOOSE u \in Users : us[u].known /\ us[u].seq = i]
\* if user_id not in self.user_stats: self.user_stats[user_id] = {...}
Register(us, user) ==
    IF us[user].known THEN us
    ELSE [us EXCEPT ![user] = [NewStats EXCEPT !.seq = NumUsers(us) + 1]]
\* all the counters of all the users together
Activity(us, u) ==
    us[u].sticker_count + us[u].memes_created + us[u].quotes_created
RECURSIVE SumActivity(_, _)
SumActivity(us, S) ==
    IF S = {} THEN 0
    ELSE LET u == CHOOSE x \in S : TRUE
         IN Activity(us, u) + SumActivity(us, S \ {u})
TotalActivity(us) == SumActivity(us, Users)

\* OWNER_ID and ADMIN_IDS from the environment: the ids listed in ADMIN_IDS
\* and, appended, an owner that is set and not listed
ReadConfig(owner, listed) ==
    [OWNER_ID |-> owner,
     ADMIN_IDS |-> IF owner # 0 /\ owner \notin listed
                   THEN listed \cup {owner} ELSE listed]
\* neither variable set
DefaultConfig == ReadConfig(0, {})
Configs == {ReadConfig(o, l) : o \in {0} \cup Users, l \in SUBSET Users}

\* the /broadcast in progress.  pc: "none"; "preview" (awaiting the preview
\* reply); "next" (at the top of the for loop); "sending" (awaiting
\* send_message to keys[idx]); "sleeping" (awaiting asyncio.sleep);
\* "reported" (the final report is sent); "raised" (an error left the
\* handler).  keys, size: the keys and the length of user_stats when the
\* loop took its iterator; sent: the send_message calls and how they ended;
\* total: the number of users the report gives
NoCast == [pc |-> "none", keys |-> <<>>, size |-> 0, idx |-> 0,
           success |-> 0, failed |-> 0, sent |-> <<>>, total |-> 0]

\* a message: exists = FALSE stands for None; has_user: from_user is set;
\* media: the image of its photo, sticker, animation or video (NoImage: it
\* has none); downloads: get_file and download_to_memory succeed
NoMessage == [exists |-> FALSE, has_user |-> FALSE, first_name |-> <<>>,
              text |-> <<>>, caption |-> <<>>, media |-> NoImage,
              downloads |-> FALSE, file_size |-> 0]

NoUpdate == [handler |-> "none", user |-> 0, rest |-> <<>>,
             replied |-> NoMessage, raised |-> FALSE]

\* a request on the event loop: kind is its handler, pc where it stands,
\* step the awaits it has completed, url the font URL being requested
NoTask == [kind |-> "none", pc |-> "none", step |-> 0, url |-> 0]

Init ==
    /\ pc = "idle"
    /\ call = NoCall
    /\ ret = NoRet
    /\ fs = [p \in Paths \cup {font_path} |-> "absent"]
    /\ net \in NetStart
    /\ fontsDir = "writable"
    /\ fontlog = <<>>
    /\ stored = FALSE
    /\ user_stats = [u \in Users |-> NoStats]
    /\ update = NoUpdate
    /\ replies = <<>>
    /\ thread = 0
    /\ task = [t \in Reqs |-> NoTask]
    /\ config = DefaultConfig
    /\ cast = NoCast
    /\ exited = FALSE

ImageToSticker ==
    /\ pc = "idle"
    /\ \E img \in ImageInputs :
          /\ call' = [NoCall EXCEPT !.op = "image_to_sticker", !.image = img]
          /\ ret' = image_to_sticker(img)
    /\ pc' = "done"
    /\ fontlog' = <<>>
    /\ UNCHANGED <<fs, net, fontsDir, stored>>
    /\ UNCHANGED <<botvars, loopvars, adminvars>>

ApplyImageFilter ==
    /\ pc = "idle"
    /\ \E img \in ImageInputs, f \in FilterInputs :
          /\ call' = [NoCall EXCEPT !.op = "apply_image_filter", !.image = img,
                                    !.filter_type = f]
          /\ ret' = apply_image_filter(img, f)
    /\ pc' = "done"
    /\ fontlog' = <<>>
    /\ UNCHANGED <<fs, net, fontsDir, stored>>
    /\ UNCHANGED <<botvars, loopvars, adminvars>>

\* a call add_text_to_image(img, text) made in the current state
AddTextCall(img, text) ==
    /\ call' = [NoCall EXCEPT !.op = "add_text_to_image", !.image = img,
                              !.text = text]
    /\ IF img.mode = "undecodable"
       THEN \* Image.open raised before load_font was reached
            /\ ret' = ReturnsNone
            /\ fontlog' = <<>>
            /\ UNCHANGED <<fs, stored>>
       ELSE LET r == load_font(40, fs, net, fontsDir)
            IN /\ ret' = add_text_to_image(img, text, OnLoadError(r))
               /\ fontlog' = <<LogEntry(40, fs, stored, r)>>
               /\ fs' = r.fs
               /\ stored' = (stored \/ Downloaded(r))

AddTextToImage ==
    /\ pc = "idle"
    /\ \E img \in ImageInputs, text \in TextsUpTo(MaxMemeLen) :
          AddTextCall(img, text)
    /\ pc' = "done"
    /\ UNCHANGED <<net, fontsDir>>
    /\ UNCHANGED <<botvars, loopvars, adminvars>>

\* a call generate_quote_image(text, author) made in the current state
QuoteCall(text, author) ==
    LET r1  == load_font(28, fs, net, fontsDir)
        st1 == stored \/ Downloaded(r1)
        r2  == load_font(18, r1.fs, net, fontsDir)
        \* one try around both calls: either raise gives both defaults
        bad == r1.raised \/ r2.raised
    IN /\ call' = [NoCall EXCEPT !.op = "generate_quote_image",
                                 !.text = text, !.author = author]
       /\ ret' = generate_quote_image(text, author,
                     IF bad THEN Builtin ELSE r1.font,
                     IF bad THEN Builtin ELSE r2.font)
       /\ fontlog' = << LogEntry(28, fs, stored, r1),
                        LogEntry(18, r1.fs, st1, r2) >>
       /\ fs' = r2.fs
       /\ stored' = (st1 \/ Downloaded(r2))

GenerateQuoteImage ==
    /\ pc = "idle"
    /\ \E text \in QuoteTexts, author \in Authors : QuoteCall(text, author)
    /\ pc' = "done"
    /\ UNCHANGED <<net, fontsDir>>
    /\ UNCHANGED <<botvars, loopvars, adminvars>>

\* the result goes to the caller and every per-request entity is dropped;
\* the files and the counters stay
Return ==
    /\ pc = "done"
    /\ ~exited
    /\ pc' = "idle"
    /\ call' = NoCall
    /\ ret' = NoRet
    /\ fontlog' = <<>>
    /\ update' = NoUpdate
    /\ replies' = <<>>
    /\ cast' = NoCast
    /\ UNCHANGED <<fs, net, fontsDir, stored, user_stats, loopvars, config,
                   exited>>

Next ==
    \/ ImageToSticker
    \/ ApplyImageFilter
    \/ AddTextToImage
    \/ GenerateQuoteImage
    \/ Return

Spec == Init /\ [][Next]_vars

----------------------------------------------------------------------------
(* The font resolver alone, against every bounded environment.             *)

FileConfigs ==
    {f \in [Paths \cup {font_path} -> FileStates] :
        Cardinality({p \in DOMAIN f : f[p] # "absent"}) <= MaxPresent}

InitFont ==
    /\ pc = "idle"
    /\ call = NoCall
    /\ ret = NoRet
    /\ fs \in FileConfigs
    /\ net \in [Urls -> NetOutcomes]
    /\ fontsDir \in {"writable", "readonly", "blocked"}
    \* a "fonts" directory that cannot be created does not exist
    /\ fontsDir = "blocked" => \A p \in InFontsDir : fs[p] = "absent"
    /\ fontlog = <<>>
    /\ stored = FALSE
    /\ user_stats = [u \in Users |-> NoStats]
    /\ update = NoUpdate
    /\ replies = <<>>
    /\ thread = 0
    /\ task = [t \in Reqs |-> NoTask]
    /\ config = DefaultConfig
    /\ cast = NoCast
    /\ exited = FALSE

LoadFont ==
    /\ pc = "idle"
    /\ \E size \in FontSizes :
          LET r == load_font(size, fs, net, fontsDir)
          IN /\ call' = [NoCall EXCEPT !.op = "load_font", !.size = size]
             /\ fontlog' = <<LogEntry(size, fs, stored, r)>>
             /\ fs' = r.fs
             /\ stored' = (stored \/ Downloaded(r))
    /\ pc' = "done"
    /\ UNCHANGED <<ret, net, fontsDir>>
    /\ UNCHANGED <<botvars, loopvars, adminvars>>

\* the environment deletes a candidate file
EnvRemove ==
    /\ pc = "idle"
    /\ \E p \in Paths : /\ fs[p] # "absent"
                        /\ fs' = [fs EXCEPT ![p] = "absent"]
                        /\ stored' = (stored /\ p # font_path)
    /\ UNCHANGED <<pc, call, ret, net, fontsDir, fontlog>>
    /\ UNCHANGED <<botvars, loopvars, adminvars>>

NextFont ==
    \/ LoadFont
    \/ EnvRemove
    \/ Return

SpecFont == InitFont /\ [][NextFont]_vars

----------------------------------------------------------------------------
(* The command handlers /start, /mmf and /q.  The application is built     *)
(* with its defaults, so it handles one update at a time: a handler runs   *)
(* from its call to its return before the next one starts.                 *)

\* MAX_FILE_SIZE = 10 * 1024 * 1024
MAX_FILE_SIZE == 10485760

\* what users type after a command
CmdTexts == { <<>>, <<"a">>, <<"a", " ", "a">>, <<"a", "\n", "a">>,
              <<"\\n">>, <<"a", "\\n", "a">>,
              <<"a", " ", "\\n", " ", "a">> }

\* context.args: the words of the message after the command
args(rest) == split(rest)

FirstNames == {<<"a">>, <<"a", " ", "a">>}
\* the media users reply to
BotMedia == { [mode |-> "RGB", w |-> 512, h |-> 200, px |-> <<200, 100, 50>>,
               trns |-> FALSE],
              [mode |-> "CMYK", w |-> 200, h |-> 200,
               px |-> <<50, 100, 200, 0>>, trns |-> FALSE],
              Undecodable }

Photo(m, d, n) == [NoMessage EXCEPT !.exists = TRUE, !.has_user = TRUE,
                                    !.first_name = <<"a">>, !.media = m,
                                    !.downloads = d, !.file_size = n]

\* the messages /mmf is sent in reply to: none, one without media, one with
\* media that downloads, one whose download fails, one that is too large
MemeReplied ==
    {NoMessage, [NoMessage EXCEPT !.exists = TRUE, !.text = <<"a">>]}
        \cup {Photo(m, TRUE, MAX_FILE_SIZE) : m \in BotMedia}
        \cup {Photo(m, FALSE, MAX_FILE_SIZE) : m \in {Undecodable}}
        \cup {Photo(m, TRUE, MAX_FILE_SIZE + 1) : m \in BotMedia}

\* the messages /q is sent in reply to: none, or one with or without a
\* sender, a text and a caption
QuoteReplied ==
    {NoMessage} \cup
    { [NoMessage EXCEPT !.exists = TRUE, !.has_user = (n # <<>>),
                        !.first_name = n, !.text = t, !.caption = c] :
          n \in FirstNames \cup {<<>>},
          t \in {<<>>, <<"a", " ", "a">>}, c \in {<<>>, <<"a">>} }

\* "No text found"
NoTextFound == <<"a", " ", "a", " ", "a">>

InitBot == Init

\* an application built with concurrent_updates(True)
concurrent_updates_on == TRUE

\* Application.builder().token(BOT_TOKEN).build(): updates one at a time
concurrent_updates == FALSE

\* a handler is called for the next update: when none is in progress, or,
\* were updates handled concurrently, while the one in progress is at an
\* await
Free == pc = "idle"
AtAwait == pc = "casting" /\ cast.pc \in {"preview", "sending", "sleeping"}
CanStart == ~exited /\ (Free \/ (concurrent_updates /\ AtAwait))

\* what a handler that only replies leaves behind: its update and its
\* replies when it ran alone; nothing of them is followed when it ran
\* beside a broadcast
Replied(upd, rs) ==
    IF Free THEN update' = upd /\ replies' = rs /\ pc' = "done"
    ELSE UNCHANGED <<update, replies, pc>>

\* start: a user not yet in user_stats gets an entry with zero counters
Start ==
    /\ CanStart
    /\ \E user \in Users :
          /\ Replied([NoUpdate EXCEPT !.handler = "start", !.user = user],
                     <<"welcome">>)
          /\ user_stats' = Register(user_stats, user)
    /\ UNCHANGED <<call, ret, fs, net, fontsDir, fontlog, stored, loopvars, adminvars>>

\* handle_media: incoming media; the sender gets an entry like in start
\* (an entry that exists only has its last_active set) and is offered the
\* buttons for the kind of media
HandleMedia ==
    /\ CanStart
    /\ \E user \in Users, kind \in {"photo", "sticker", "video"} :
          /\ Replied([NoUpdate EXCEPT !.handler = "handle_media", !.user = user],
                     <<kind>>)
          /\ user_stats' = Register(user_stats, user)
    /\ UNCHANGED <<call, ret, fs, net, fontsDir, fontlog, stored, loopvars, adminvars>>

\* a size check that also turns away media of exactly the limit
TooLargeInclusive(file_size) == file_size >= MAX_FILE_SIZE

\* if file_size > MAX_FILE_SIZE
TooLarge(file_size) == file_size > MAX_FILE_SIZE

\* a counter that also counts the requests that failed
CountedAlways(us, user, sent) == us[user].known

\* if meme_image: ... if user_id in self.user_stats: the counter goes up
Counted(us, user, sent) == sent /\ us[user].known

\* memify_image: /mmf <rest> in reply to a message
MemifyImage ==
    /\ pc = "idle"
    /\ \E user \in Users, replied \in MemeReplied, rest \in CmdTexts :
          LET text == IF args(rest) # <<>> THEN join(args(rest)) ELSE <<>>
          IN /\ TotalActivity(user_stats) < MaxCount
             /\ update' = [NoUpdate EXCEPT !.handler = "memify_image",
                                           !.user = user, !.rest = rest,
                                           !.replied = replied]
             /\ IF replied.exists /\ replied.media # NoImage
                     /\ replied.downloads /\ ~TooLarge(replied.file_size)
                THEN /\ AddTextCall(replied.media, text)
                     /\ replies' = <<"processing",
                                     IF ret'.ok THEN "sticker" ELSE "failed">>
                     /\ user_stats' =
                          IF Counted(user_stats, user, ret'.ok)
                          THEN [user_stats EXCEPT ![user].memes_created = @ + 1]
                          ELSE user_stats
                ELSE /\ replies' =
                          IF ~replied.exists THEN <<"usage">>
                          ELSE IF replied.media = NoImage THEN <<"not_media">>
                          ELSE IF ~replied.downloads
                               THEN <<"processing", "no_download">>
                               ELSE <<"processing", "too_large">>
                     /\ UNCHANGED <<call, ret, fontlog, fs, stored, user_stats>>
    /\ pc' = "done"
    /\ UNCHANGED <<net, fontsDir, loopvars, adminvars>>

\* author = " ".join(context.args) if context.args
\*          else replied.from_user.first_name, but the sender alone
QuoteAuthorSenderOnly(argv, replied) == replied.first_name

\* author = " ".join(context.args) if context.args
\*          else replied.from_user.first_name
QuoteAuthor(argv, replied) ==
    IF argv # <<>> THEN join(argv) ELSE replied.first_name

\* quote_text = replied.text or replied.caption or "No text found"
QuoteText(replied) ==
    IF replied.text # <<>> THEN replied.text
    ELSE IF replied.caption # <<>> THEN replied.caption
    ELSE NoTextFound

\* create_quote: /q <rest> in reply to a message
CreateQuote ==
    /\ pc = "idle"
    /\ \E user \in Users, replied \in QuoteReplied, rest \in CmdTexts :
          /\ TotalActivity(user_stats) < MaxCount
          /\ IF ~replied.exists
             THEN /\ update' = [NoUpdate EXCEPT !.handler = "create_quote",
                                   !.user = user, !.rest = rest,
                                   !.replied = replied]
                  /\ replies' = <<"usage">>
                  /\ UNCHANGED <<call, ret, fontlog, fs, stored, user_stats>>
             ELSE IF args(rest) = <<>> /\ ~replied.has_user
             THEN \* None has no first_name: the handler ends in the error
                  /\ update' = [NoUpdate EXCEPT !.handler = "create_quote",
                                   !.user = user, !.rest = rest,
                                   !.replied = replied, !.raised = TRUE]
                  /\ replies' = <<>>
                  /\ UNCHANGED <<call, ret, fontlog, fs, stored, user_stats>>
             ELSE /\ update' = [NoUpdate EXCEPT !.handler = "create_quote",
                                   !.user = user, !.rest = rest,
                                   !.replied = replied]
                  /\ QuoteCall(QuoteText(replied),
                               QuoteAuthor(args(rest), replied))
                  /\ replies' = <<"processing",
                                  IF ret'.ok THEN "sticker" ELSE "failed">>
                  /\ user_stats' =
                       IF Counted(user_stats, user, ret'.ok)
                       THEN [user_stats EXCEPT ![user].quotes_created = @ + 1]
                       ELSE user_stats
    /\ pc' = "done"
    /\ UNCHANGED <<net, fontsDir, loopvars, adminvars>>

\* kang_sticker: /kang in reply to a sticker, or in the caption of one.
\* add_to_sticker_set reports its own failures; only the failure of that
\* report leaves it, and the handler with it.
KangSticker ==
    /\ pc = "idle"
    /\ \E user \in Users, sticker \in {"replied", "own", "none"},
          outcome \in {"sent", "failed", "raised"} :
          /\ TotalActivity(user_stats) < MaxCount
          /\ update' = [NoUpdate EXCEPT !.handler = "kang_sticker",
                                        !.user = user,
                                        !.raised = (sticker # "none"
                                                    /\ outcome = "raised")]
          /\ replies' = IF sticker = "none" THEN <<"no_sticker">>
                        ELSE IF outcome = "sent" THEN <<"processed", "sticker">>
                        ELSE IF outcome = "failed" THEN <<"failed">>
                        ELSE <<>>
          /\ user_stats' =
                IF sticker # "none" /\ outcome # "raised"
                     /\ user_stats[user].known
                THEN [user_stats EXCEPT ![user].sticker_count = @ + 1]
                ELSE user_stats
    /\ pc' = "done"
    /\ UNCHANGED <<call, ret, fs, net, fontsDir, fontlog, stored, loopvars, adminvars>>

NextBot ==
    \/ Start
    \/ HandleMedia
    \/ MemifyImage
    \/ CreateQuote
    \/ KangSticker
    \/ Return

SpecBot == InitBot /\ [][NextBot]_vars

----------------------------------------------------------------------------
(* The owner and admin commands, with /broadcast step by step: every await *)
(* of its loop is a step of its own, and the handlers of other updates     *)
(* come in between only if the application lets them (CanStart).           *)

\* an owner check that lets every listed admin through
is_owner_listed(user_id) == user_id \in config.ADMIN_IDS

\* is_owner: user_id == OWNER_ID
is_owner(user_id) == user_id = config.OWNER_ID

\* is_admin: user_id in ADMIN_IDS or self.is_owner(user_id)
is_admin(user_id) == user_id \in config.ADMIN_IDS \/ is_owner(user_id)

\* what is typed after an admin command: nothing, or a word
AdminTexts == {<<>>, <<"a">>}

InitAdmin ==
    /\ pc = "idle"
    /\ call = NoCall
    /\ ret = NoRet
    /\ fs = [p \in Paths \cup {font_path} |-> "absent"]
    /\ net = [u \in Urls |-> "timeout"]
    /\ fontsDir = "writable"
    /\ fontlog = <<>>
    /\ stored = FALSE
    /\ user_stats = [u \in Users |-> NoStats]
    /\ update = NoUpdate
    /\ replies = <<>>
    /\ thread = 0
    /\ task = [t \in Reqs |-> NoTask]
    /\ config \in Configs
    /\ cast = NoCast
    /\ exited = FALSE

\* what the commands below leave alone
AdminFrame == UNCHANGED <<call, ret, fs, net, fontsDir, fontlog, stored,
                          loopvars, config>>

\* the update a command handler was called with
Command(h, user, rest) ==
    [NoUpdate EXCEPT !.handler = h, !.user = user, !.rest = rest]

\* clone_bot
CloneBot ==
    /\ Free /\ ~exited
    /\ \E user \in Users, rest \in AdminTexts :
          /\ update' = Command("clone_bot", user, rest)
          /\ replies' = IF ~is_admin(user) THEN <<"admins_only">>
                        ELSE IF args(rest) # <<>> THEN <<"cloning">>
                        ELSE <<"usage">>
    /\ pc' = "done"
    /\ AdminFrame
    /\ UNCHANGED <<user_stats, cast, exited>>

\* stats_command
StatsCommand ==
    /\ Free /\ ~exited
    /\ \E user \in Users :
          /\ update' = Command("stats_command", user, <<>>)
          /\ replies' = IF ~is_admin(user) THEN <<"admins_only">>
                        ELSE <<"stats">>
    /\ pc' = "done"
    /\ AdminFrame
    /\ UNCHANGED <<user_stats, cast, exited>>

\* users_command
UsersCommand ==
    /\ Free /\ ~exited
    /\ \E user \in Users :
          /\ update' = Command("users_command", user, <<>>)
          /\ replies' = IF ~is_owner(user) THEN <<"owner_only">>
                        ELSE IF NumUsers(user_stats) = 0 THEN <<"no_users">>
                        ELSE <<"users">>
    /\ pc' = "done"
    /\ AdminFrame
    /\ UNCHANGED <<user_stats, cast, exited>>

\* restart_command: os._exit(0) after the reply
RestartCommand ==
    /\ Free /\ ~exited
    /\ \E user \in Users :
          /\ update' = Command("restart_command", user, <<>>)
          /\ replies' = IF ~is_owner(user) THEN <<"owner_only">>
                        ELSE <<"restarting">>
          /\ exited' = is_owner(user)
    /\ pc' = "done"
    /\ AdminFrame
    /\ UNCHANGED <<user_stats, cast>>

\* callback_handler with data == "admin_panel"
AdminPanel ==
    /\ Free /\ ~exited
    /\ \E user \in Users :
          /\ update' = Command("admin_panel", user, <<>>)
          /\ replies' = IF is_admin(user) THEN <<"admin_panel">>
                        ELSE <<"access_denied">>
    /\ pc' = "done"
    /\ AdminFrame
    /\ UNCHANGED <<user_stats, cast, exited>>

\* broadcast_command up to its first await inside the broadcast: the
\* checks, then the preview reply
BroadcastCommand ==
    /\ Free /\ ~exited
    /\ \E user \in Users, rest \in AdminTexts :
          /\ update' = Command("broadcast_command", user, rest)
          /\ IF ~is_owner(user)
             THEN replies' = <<"owner_only">> /\ pc' = "done" /\ cast' = cast
             ELSE IF args(rest) = <<>>
             THEN replies' = <<"usage">> /\ pc' = "done" /\ cast' = cast
             ELSE /\ replies' = <<"preview">>
                  /\ pc' = "casting"
                  /\ cast' = [NoCast EXCEPT !.pc = "preview"]
    /\ AdminFrame
    /\ UNCHANGED <<user_stats, exited>>

\* the preview is sent; for user_id in self.user_stats.keys(): the loop
\* takes its iterator
CastBegin ==
    /\ pc = "casting" /\ cast.pc = "preview"
    /\ cast' = [cast EXCEPT !.pc = "next", !.keys = Keys(user_stats),
                            !.size = NumUsers(user_stats)]
    /\ AdminFrame
    /\ UNCHANGED <<pc, user_stats, update, replies, exited>>

\* the top of the loop.  The iterator raises RuntimeError when the dict
\* changed size since it was taken; it ends after the last key, and the
\* final report follows; otherwise send_message to the next key is awaited
CastNext ==
    /\ pc = "casting" /\ cast.pc = "next"
    /\ IF NumUsers(user_stats) # cast.size
       THEN /\ cast' = [cast EXCEPT !.pc = "raised"]
            /\ update' = [update EXCEPT !.raised = TRUE]
            /\ pc' = "done"
            /\ UNCHANGED replies
       ELSE IF cast.idx = Len(cast.keys)
       THEN /\ cast' = [cast EXCEPT !.pc = "reported",
                                    !.total = NumUsers(user_stats)]
            /\ replies' = Append(replies, "report")
            /\ pc' = "done"
            /\ UNCHANGED update
       ELSE /\ cast' = [cast EXCEPT !.pc = "sending", !.idx = @ + 1]
            /\ UNCHANGED <<pc, update, replies>>
    /\ AdminFrame
    /\ UNCHANGED <<user_stats, exited>>

\* send_message returns (success += 1, then asyncio.sleep(0.1)) or raises
\* (failed += 1, on to the next key)
CastSent ==
    /\ pc = "casting" /\ cast.pc = "sending"
    /\ \E ok \in BOOLEAN :
          cast' = [cast EXCEPT
                      !.sent = Append(@, [user |-> cast.keys[cast.idx],
                                          ok |-> ok]),
                      !.success = IF ok THEN @ + 1 ELSE @,
                      !.failed = IF ok THEN @ ELSE @ + 1,
                      !.pc = IF ok THEN "sleeping" ELSE "next"]
    /\ AdminFrame
    /\ UNCHANGED <<pc, user_stats, update, replies, exited>>

\* the sleep is over
CastWake ==
    /\ pc = "casting" /\ cast.pc = "sleeping"
    /\ cast' = [cast EXCEPT !.pc = "next"]
    /\ AdminFrame
    /\ UNCHANGED <<pc, user_stats, update, replies, exited>>

CastStep == CastBegin \/ CastNext \/ CastSent \/ CastWake

NextAdmin ==
    \/ Start
    \/ HandleMedia
    \/ CloneBot
    \/ StatsCommand
    \/ UsersCommand
    \/ RestartCommand
    \/ AdminPanel
    \/ BroadcastCommand
    \/ CastBegin
    \/ CastNext
    \/ CastSent
    \/ CastWake
    \/ Return

SpecAdmin == InitAdmin /\ [][NextAdmin]_vars

\* the event loop resumes a coroutine whose awaited reply, send or sleep is
\* over, so a broadcast in progress goes on
SpecAdminFair == SpecAdmin /\ WF_vars(CastStep)

----------------------------------------------------------------------------
(* The event loop.  Every handler is a coroutine on the one thread of the  *)
(* asyncio loop: it gives the thread up at an await on Telegram I/O and    *)
(* holds it through everything else, a synchronous call included.  The     *)
(* updater takes an update from Telegram on the same thread.               *)

Kinds == {"memify_image", "help_command"}

\* the awaits of a handler that reach Telegram: memify_image has
\* reply_text, download_media and, after the engine, reply_sticker;
\* help_command has reply_text
Awaits(kind) == IF kind = "memify_image" THEN 3 ELSE 1
\* the awaits memify_image completes before add_text_to_image
EngineAt == 2

\* what the steps of the event loop leave alone
LoopFrame == UNCHANGED <<pc, call, ret, net, fontsDir, fontlog, stored,
                         botvars, adminvars>>

Handling(t) == task[t].pc \in {"running", "awaiting", "in_get"}
\* step counts the awaits completed and, past them, the engine call
EngineDone(t) == task[t].kind # "memify_image" \/ task[t].step > EngineAt
AtEngine(t) == task[t].kind = "memify_image" /\ task[t].step = EngineAt
LastStep(kind) == IF kind = "memify_image" THEN Awaits(kind) + 1
                  ELSE Awaits(kind)

InitLoop ==
    /\ pc = "idle"
    /\ call = NoCall
    /\ ret = NoRet
    \* no font file, or the one an earlier download stored
    /\ fs \in {[p \in Paths \cup {font_path} |-> "absent"],
               [p \in Paths \cup {font_path} |->
                    IF p = font_path THEN "good" ELSE "absent"]}
    /\ net \in NetStart
    /\ fontsDir \in {"writable", "blocked"}
    /\ fontsDir = "blocked" => \A p \in InFontsDir : fs[p] = "absent"
    /\ fontlog = <<>>
    /\ stored = FALSE
    /\ user_stats = [u \in Users |-> NoStats]
    /\ update = NoUpdate
    /\ replies = <<>>
    /\ thread = 0
    /\ task \in [Reqs -> {[NoTask EXCEPT !.kind = k, !.pc = "unsent"] :
                             k \in Kinds}]
    /\ config = DefaultConfig
    /\ cast = NoCast
    /\ exited = FALSE

\* the updater's get_updates returns and the update is queued
Arrive(t) ==
    /\ task[t].pc = "unsent"
    /\ thread = 0
    /\ task' = [task EXCEPT ![t].pc = "queued"]
    /\ UNCHANGED <<thread, fs>>
    /\ LoopFrame

\* the application calls the handler of a queued update
Dispatch(t) ==
    /\ task[t].pc = "queued"
    /\ thread = 0
    /\ concurrent_updates \/ \A o \in Reqs : ~Handling(o)
    /\ task' = [task EXCEPT ![t].pc = "running"]
    /\ thread' = t
    /\ UNCHANGED fs
    /\ LoopFrame

\* the handler reaches an await on Telegram I/O and gives the thread up
Await(t) ==
    /\ task[t].pc = "running"
    /\ thread = t
    /\ ~AtEngine(t)
    /\ task[t].step < LastStep(task[t].kind)
    /\ task' = [task EXCEPT ![t].pc = "awaiting"]
    /\ thread' = 0
    /\ UNCHANGED fs
    /\ LoopFrame

\* the awaited I/O is complete and the loop resumes the handler
Resume(t) ==
    /\ task[t].pc = "awaiting"
    /\ thread = 0
    /\ task' = [task EXCEPT ![t].pc = "running", ![t].step = @ + 1]
    /\ thread' = t
    /\ UNCHANGED fs
    /\ LoopFrame

\* add_text_to_image up to the first requests.get: load_font goes through
\* font_paths and download_font starts on the first URL; with a font file
\* in place or no fonts directory the engine needs no request
EngineStart(t) ==
    /\ task[t].pc = "running"
    /\ thread = t
    /\ AtEngine(t)
    /\ IF (\E p \in Paths : fs[p] = "good") \/ fontsDir = "blocked"
       THEN task' = [task EXCEPT ![t].step = @ + 1]
       ELSE task' = [task EXCEPT ![t].pc = "in_get", ![t].url = 1]
    /\ UNCHANGED <<thread, fs>>
    /\ LoopFrame

\* requests.get(font_url, timeout=10) returns or raises: the font is stored
\* and the engine goes on, or the next URL is requested, or none is left
EndGet(t) ==
    /\ task[t].pc = "in_get"
    /\ thread = t
    /\ LET u == font_urls[task[t].url]
       IN IF net[u] \in {"ok_font", "ok_junk"} /\ fontsDir = "writable"
          THEN /\ fs' = [fs EXCEPT ![font_path] =
                            IF net[u] = "ok_font" THEN "good" ELSE "corrupt"]
               /\ IF net[u] = "ok_font" \/ task[t].url = Len(font_urls)
                  THEN task' = [task EXCEPT ![t].pc = "running",
                                            ![t].step = @ + 1, ![t].url = 0]
                  ELSE task' = [task EXCEPT ![t].url = @ + 1]
          ELSE /\ fs' = fs
               /\ IF task[t].url = Len(font_urls)
                  THEN task' = [task EXCEPT ![t].pc = "running",
                                            ![t].step = @ + 1, ![t].url = 0]
                  ELSE task' = [task EXCEPT ![t].url = @ + 1]
    /\ UNCHANGED thread
    /\ LoopFrame

\* the handler returns
Finish(t) ==
    /\ task[t].pc = "running"
    /\ thread = t
    /\ task[t].step = LastStep(task[t].kind)
    /\ task' = [task EXCEPT ![t].pc = "finished"]
    /\ thread' = 0
    /\ UNCHANGED fs
    /\ LoopFrame

NextLoop ==
    \E t \in Reqs :
        \/ Arrive(t)
        \/ Dispatch(t)
        \/ Await(t)
        \/ Resume(t)
        \/ EngineStart(t)
        \/ EndGet(t)
        \/ Finish(t)

SpecLoop == InitLoop /\ [][NextLoop]_vars

----------------------------------------------------------------------------
(* Properties.                                                             *)

Done(op) == pc = "done" /\ call.op = op
Normalised == pc = "done" /\ call.op \in {"image_to_sticker", "add_text_to_image"}
                /\ call.image.mode \in Modes

LineWidth(line, font) == LET b == textbbox(line, font) IN b[3] - b[1]
IsOneWord(line) == line # <<>> /\ \A i \in 1..Len(line) : ~IsSpace(line[i])
\* font_large of a quote call: the font of its first quotation mark
QuoteFont == ret.drawn[1].font

\* C1: every line the quote composer's wrap loop produces measures at most
\* the canvas width minus 100, unless it is exactly one word that is wider
\* than that by itself.
C1_WrapWidth ==
    Done("generate_quote_image") =>
        \A i \in 1..Len(ret.lines) :
            \/ LineWidth(ret.lines[i], QuoteFont) <= width - 100
            \/ IsOneWord(ret.lines[i])

\* a wrapped text with a line of several words and an over-wide single word
C1_Witness ==
    /\ Done("generate_quote_image")
    /\ \E i \in 1..Len(ret.lines) : ~IsOneWord(ret.lines[i]) /\ ret.lines[i] # <<>>
    /\ \E i \in 1..Len(ret.lines) :
          LineWidth(ret.lines[i], QuoteFont) > width - 100

\* C2: a filter name outside grayscale, invert, posterize, solarize ends in
\* an error outcome, never in a returned image.
C2_UnknownFilterFails ==
    (Done("apply_image_filter") /\ call.filter_type \notin FilterNames)
        => ~ret.ok

FontLogged == {fontlog[i] : i \in 1..Len(fontlog)}
Gets(e) == {j \in 1..Len(e.trace) : e.trace[j][1] = "get"}

\* C3: load_font raises nothing and returns a font handle whatever the
\* candidates, the fonts directory and the network do; with no candidate
\* file and no network the handle is the built-in font.
C3_FontNeverFails ==
    \A e \in FontLogged :
        /\ ~e.raised
        /\ e.font.kind \in {"truetype", "builtin"}
        /\ ((\A p \in Paths : e.before[p] = "absent")
                /\ (\A u \in Urls : net[u] = "timeout"))
             => e.font = Builtin

\* the fonts directory cannot be created and download_font raises
C3_Witness ==
    /\ Done("load_font")
    /\ fontsDir = "blocked"
    /\ <<"mkdir", 0>> \in {fontlog[1].trace[j] : j \in 1..Len(fontlog[1].trace)}
    /\ fontlog[1].font = Builtin

IsBreakBetweenTwoWords(t) ==
    \E k \in 2..(Len(t) - 1) :
        /\ t[k] = "\n"
        /\ \A j \in (1..Len(t)) \ {k} : t[j] = "a"
CountA(line) == Cardinality({i \in 1..Len(line) : line[i] = "a"})

\* C4: for a text A<newline>B, neither composer lays out a line that holds
\* both A and B.
C4_BreakStartsLine ==
    (pc = "done" /\ call.op \in {"add_text_to_image", "generate_quote_image"}
         /\ IsBreakBetweenTwoWords(call.text))
        => \A i \in 1..Len(ret.lines) : CountA(ret.lines[i]) < CountA(call.text)

\* C5: once a download was stored and loaded, a load_font call that finds
\* the stored file in place and no earlier candidate present returns the
\* font of the stored file and makes no request.
C5_DownloadPersisted ==
    \A e \in FontLogged :
        (/\ e.storedBefore
         /\ e.before[font_path] = "good"
         /\ \A p \in EarlierPaths(font_path) : e.before[p] = "absent")
        => /\ e.font = TrueType(font_path, e.size)
           /\ Gets(e) = {}

\* a second call after a download, served from the stored file
C5_Witness ==
    /\ Done("load_font")
    /\ fontlog[1].storedBefore
    /\ \A p \in EarlierPaths(font_path) : fontlog[1].before[p] = "absent"
    /\ fontlog[1].font = TrueType(font_path, fontlog[1].size)
    /\ net[1] = "ok_font"

\* C6: after the thumbnail step both dimensions are at most 512 and at most
\* the source's; a downscaled image has its longer side at 512 and the
\* other within one pixel of the proportional size; an image within bounds
\* keeps its size.
C6_SizeBound ==
    Normalised =>
        LET w  == call.image.w
            h  == call.image.h
            cw == ret.content[1]
            ch == ret.content[2]
        IN /\ cw <= max_size /\ ch <= max_size
           /\ cw <= w /\ ch <= h
           /\ cw >= 1 /\ ch >= 1
           /\ (w <= max_size /\ h <= max_size) => (cw = w /\ ch = h)
           /\ (w > max_size \/ h > max_size) =>
                 IF h >= w
                 THEN ch = max_size /\ Abs(cw * h - max_size * w) < h
                 ELSE cw = max_size /\ Abs(ch * w - max_size * h) < w

\* a 1025 x 200 image scaled to 512 x 100 by the meme composer
C6_Witness ==
    /\ Done("add_text_to_image")
    /\ call.image.w = 1025 /\ call.image.h = 200
    /\ ret.content = <<512, 100>>

Min(a, b) == IF a <= b THEN a ELSE b

\* C7: image_to_sticker of a W x H image, W # H, gives an S x S image with
\* S = min(512, max(W', H')) for the size W' x H' after the downscale, the
\* content at ((S-W')//2, (S-H')//2), opposite paddings within one pixel.
C7_SquarePadding ==
    (Done("image_to_sticker") /\ call.image.mode \in Modes
        /\ call.image.w # call.image.h) =>
        LET cw == ret.content[1]
            ch == ret.content[2]
            S  == Min(max_size, Max(cw, ch))
            ox == ret.offset[1]
            oy == ret.offset[2]
        IN /\ ret.image.w = S /\ ret.image.h = S
           /\ S <= max_size
           /\ ret.offset = <<(S - cw) \div 2, (S - ch) \div 2>>
           /\ Abs(ox - (S - cw - ox)) <= 1
           /\ Abs(oy - (S - ch - oy)) <= 1

\* a 1025 x 200 image: 512 x 100 content, 206 rows of padding above and below
C7_Witness ==
    /\ Done("image_to_sticker")
    /\ call.image.w = 1025 /\ call.image.h = 200
    /\ ret.image.w = 512 /\ ret.image.h = 512
    /\ ret.offset = <<0, 206>>

\* C8: whatever the mode of the decoded input, the image handed on after
\* normalisation in image_to_sticker and add_text_to_image has mode RGB.
C8_AlwaysRGB == Normalised => ret.image.mode = "RGB"

AlphaOf(img) ==
    CASE img.mode = "RGBA" -> img.px[4]
      [] img.mode = "LA"   -> img.px[2]
      [] img.mode = "P"    -> IF img.trns THEN 0 ELSE 255

\* C9: for an RGBA, LA or P source, a fully transparent pixel comes out of
\* normalisation white and a fully opaque one with its colour unchanged.
C9_AlphaFlatten ==
    (Normalised /\ call.image.mode \in {"RGBA", "LA", "P"}) =>
        /\ AlphaOf(call.image) = 0 => ret.flat.px = <<white, white, white>>
        /\ AlphaOf(call.image) = 255
              => ret.flat.px = ToRGB(call.image.mode, call.image.px)

TwoLineMeme == Done("add_text_to_image") /\ Len(ret.lines) >= 2
Centred(d, w) == d.x = (w - LineWidth(d.s, d.font)) \div 2

\* C10 as claimed: with two or more lines, the first is drawn centred at
\* y = 10, the second centred at the image height minus its own rendered
\* height minus 10, and nothing else is drawn.
C10_AsClaimed ==
    TwoLineMeme =>
        /\ Len(ret.drawn) = 2
        /\ ret.drawn[1].s = ret.lines[1] /\ ret.drawn[1].y = 10
        /\ Centred(ret.drawn[1], ret.image.w)
        /\ ret.drawn[2].s = ret.lines[2]
        /\ Centred(ret.drawn[2], ret.image.w)
        /\ LET b == textbbox(ret.lines[2], ret.drawn[2].font)
           IN ret.drawn[2].y = ret.image.h - (b[4] - b[2]) - 10

\* C10 amended: the second line's anchor is the image height minus the
\* bottom edge of its bounding box (the box's offset below the anchor plus
\* its rendered height) minus 10; the rest as claimed.
C10_TwoLinePlacement ==
    TwoLineMeme =>
        /\ Len(ret.drawn) = 2
        /\ ret.drawn[1].s = ret.lines[1] /\ ret.drawn[1].y = 10
        /\ Centred(ret.drawn[1], ret.image.w)
        /\ ret.drawn[2].s = ret.lines[2]
        /\ Centred(ret.drawn[2], ret.image.w)
        /\ LET b == textbbox(ret.lines[2], ret.drawn[2].font)
           IN ret.drawn[2].y = ret.image.h - (b[2] + (b[4] - b[2])) - 10

\* three lines under a truetype font: two drawn, the third dropped
C10_Witness ==
    /\ TwoLineMeme
    /\ Len(ret.lines) = 3
    /\ ret.ok
    /\ ret.drawn[2].font.kind = "truetype"
    /\ ret.drawn[2].s = <<"a">>

EngineOps == {"image_to_sticker", "add_text_to_image", "apply_image_filter",
              "generate_quote_image"}
Composers == {"add_text_to_image", "generate_quote_image"}

\* C12: add_text_to_image and generate_quote_image called with an empty
\* text end in an error outcome and return no rendered image.
C12_EmptyTextRejected ==
    (pc = "done" /\ call.op \in Composers /\ call.text = <<>>)
        => (~ret.ok /\ ret.out = NoImage)

\* C13: every engine operation returns either the encoded image it rendered
\* to the end, or None and no image; when the input bytes do not decode it
\* returns None after a single Image.open.
C13_AllOrNothing ==
    (pc = "done" /\ call.op \in EngineOps) =>
        /\ \/ ret.ok /\ ret.out = ret.image /\ ret.out.mode \in PngModes
           \/ ~ret.ok /\ ret.out = NoImage
        /\ (ret.ok /\ call.op \in Composers) => ret.drawn # <<>>
        /\ call.image = Undecodable
             => (~ret.ok /\ ret.out = NoImage /\ ret.opens = 1)

\* an image that decodes, is rendered, and fails in the encoder
C13_Witness ==
    /\ Done("add_text_to_image")
    /\ call.image.mode = "CMYK"
    /\ ret.image.mode = "CMYK"
    /\ ret.drawn # <<>>
    /\ ~ret.ok

\* C14: the quote card draws the first min(6, n) of its n wrapped lines, in
\* order, the i-th at y = 100 + 40 (i - 1) and centred on the 512 canvas;
\* the draws besides them are the two quotation marks before and the
\* attribution after, whatever n is.
C14_QuoteBody ==
    Done("generate_quote_image") =>
        LET n == Min(6, Len(ret.lines))
        IN /\ Len(ret.drawn) = 2 + n + 1
           /\ \A i \in 1..n :
                 LET d == ret.drawn[2 + i]
                 IN /\ d.s = ret.lines[i]
                    /\ d.y = 100 + 40 * (i - 1)
                    /\ d.x = (512 - LineWidth(d.s, d.font)) \div 2
                    /\ d.font = QuoteFont
           /\ ret.drawn[1].s = <<"q">> /\ ret.drawn[2].s = <<"q">>
           /\ ret.drawn[2 + n + 1].y = height - 80

\* eight wrapped lines: six drawn, the seventh and eighth dropped
C14_Witness ==
    /\ Done("generate_quote_image")
    /\ Len(ret.lines) = 8
    /\ Len(ret.drawn) = 9
    /\ ret.drawn[8].y = 300
    /\ ret.ok

\* C16: with the input pixel taken as the RGB colour Pillow converts it to,
\* the grayscale filter returns a pixel whose R, G and B are equal, and the
\* invert filter returns an RGB pixel that is 255 minus the input on every
\* channel.
C16_FilterPixels ==
    (Done("apply_image_filter") /\ ret.ok) =>
        LET src == ToRGB(call.image.mode, call.image.px)
            dst == ToRGB(ret.out.mode, ret.out.px)
        IN /\ call.filter_type = "grayscale"
                => (dst[1] = dst[2] /\ dst[2] = dst[3]
                    /\ ret.out.w = call.image.w /\ ret.out.h = call.image.h)
           /\ call.filter_type = "invert"
                => (/\ ret.out.mode = "RGB"
                    /\ \A c \in 1..3 : ret.out.px[c] = 255 - src[c]
                    /\ ret.out.w = call.image.w /\ ret.out.h = call.image.h)

\* a grayscale of a pixel whose three channels differ
C16_Witness ==
    /\ Done("apply_image_filter")
    /\ call.filter_type = "grayscale"
    /\ call.image.mode = "RGBA"
    /\ call.image.px[1] # call.image.px[2]
    /\ ret.ok
    /\ ret.out.mode = "L"

\* C17: the wrap loop of the quote composer never emits an empty line: it
\* closes a line only when that line holds a word besides the overflowing
\* one, also when the over-wide word is the first of the text.
C17_NoEmptyLine ==
    Done("generate_quote_image") =>
        \A i \in 1..Len(ret.lines) : ret.lines[i] # <<>>

\* the events of a load_font call, by kind, in order
EventsOf(e, kind) ==
    LET S == SelectSeq(e.trace, LAMBDA ev : ev[1] = kind)
    IN [i \in 1..Len(S) |-> S[i][2]]
Increasing(q) == \A i \in 1..(Len(q) - 1) : q[i] < q[i + 1]
ElemsOf(q) == {q[i] : i \in 1..Len(q)}
\* whether URL u, requested now, gives a font download_font can store and load
Delivers(u) == net[u] = "ok_font" /\ fontsDir = "writable"

\* C18: load_font tries the platform paths (1..6), then the project paths
\* (7..9), then the URLs (1, 2), in that order; the first candidate that
\* loads is returned and no later one is tried; the built-in font is
\* returned only after every path and every URL was tried and failed.
C18_CandidateOrder ==
    \A e \in FontLogged :
        LET good    == {p \in Paths : e.before[p] = "good"}
            present == {p \in Paths : e.before[p] # "absent"}
            opens   == EventsOf(e, "open")
            gets    == EventsOf(e, "get")
        IN /\ Increasing(opens) /\ Increasing(gets)
           /\ \A i \in 1..Len(e.trace), j \in 1..Len(e.trace) :
                 (e.trace[i][1] = "get" /\ e.trace[j][1] = "open") => j < i
           /\ good # {} =>
                 \E p \in good :
                     /\ \A q \in good : p <= q
                     /\ e.font = TrueType(p, e.size)
                     /\ ElemsOf(opens) = {q \in present : q <= p}
                     /\ gets = <<>>
           /\ (good = {} /\ e.font.kind = "truetype") =>
                 \E u \in Urls :
                     /\ Delivers(u)
                     /\ \A v \in Urls : v < u => ~Delivers(v)
                     /\ ElemsOf(opens) = present
                     /\ ElemsOf(gets) = {v \in Urls : v <= u}
           /\ e.font.kind # "truetype" =>
                 /\ e.font = Builtin
                 /\ good = {}
                 /\ ElemsOf(opens) = present
                 /\ ElemsOf(gets) = Urls
                 /\ \A u \in Urls : ~Delivers(u)

\* C19: the meme composer breaks a caption into lines that fit the image
\* width; only a line that is one single word may be wider than the image.
C19_MemeWrapped ==
    (Done("add_text_to_image") /\ ret.ok) =>
        \A i \in 1..Len(ret.lines) :
            \/ LineWidth(ret.lines[i], ret.drawn[1].font) <= ret.image.w
            \/ IsOneWord(ret.lines[i])

\* the command text is two runs of glyphs with the typed marker, backslash
\* and n, between them
MarkerAt(rest, k) ==
    /\ 1 < k /\ k < Len(rest)
    /\ rest[k] = "\\n"
    /\ \A j \in (1..Len(rest)) \ {k} : rest[j] = "a"

\* C11: for /mmf A\nB, typed with the marker the help texts show, the text
\* that reaches the meme composer is laid out as the two lines A and B: A
\* drawn as the top caption and B as the bottom caption.
C11_MarkerSplits ==
    (pc = "done" /\ update.handler = "memify_image"
         /\ call.op = "add_text_to_image" /\ ret.ok) =>
        \A k \in 1..Len(update.rest) :
            MarkerAt(update.rest, k) =>
                /\ ret.lines = << SubSeq(update.rest, 1, k - 1),
                                  SubSeq(update.rest, k + 1, Len(update.rest)) >>
                /\ Len(ret.drawn) = 2
                /\ ret.drawn[1].s = ret.lines[1] /\ ret.drawn[1].y = 10
                /\ ret.drawn[2].s = ret.lines[2]

C20_DownloadLeavesLoopFree ==
    \A t \in Reqs : task[t].pc = "in_get" => thread # t

\* the words of the lines, line after line
RECURSIVE WordsOf(_)
WordsOf(lines) ==
    IF lines = <<>> THEN <<>> ELSE split(Head(lines)) \o WordsOf(Tail(lines))
NonEmpty(lines) == SelectSeq(lines, LAMBDA l : l # <<>>)

\* C21: the lines the wrap loop of the quote composer produces, empty lines
\* left out and joined with single spaces, are the whitespace-separated
\* words of the text in their order, joined with single spaces; every line
\* is its own words joined with single spaces.
C21_WrapKeepsWords ==
    Done("generate_quote_image") =>
        /\ WordsOf(ret.lines) = split(call.text)
        /\ join(NonEmpty(ret.lines)) = join(split(call.text))
        /\ \A i \in 1..Len(ret.lines) :
              ret.lines[i] = join(split(ret.lines[i]))

\* a text of several words wrapped into several lines, the first one empty
C21_Witness ==
    /\ Done("generate_quote_image")
    /\ Len(split(call.text)) >= 3
    /\ Len(ret.lines) >= 3
    /\ ret.lines[1] = <<>>
    /\ HasNl(call.text)

\* the handler called in this step, for this user
Handles(h, u) ==
    pc = "idle" /\ pc' = "done" /\ update'.handler = h /\ update'.user = u
SentSticker == replies' = <<"processing", "sticker">>

\* C23: the three counters of every user start at 0 and never go down; a
\* user's memes_created (quotes_created) goes up by exactly 1 in a /mmf
\* (/q) request of that user whose image was rendered and sent, and stays
\* as it is in one that failed; a counter changes only for a user who has
\* an entry, and an entry is made by start and handle_media only.
C23_Counters ==
    [][\A u \in Users :
          LET a == user_stats[u]
              b == user_stats'[u]
          IN /\ a.memes_created >= 0 /\ a.quotes_created >= 0
             /\ a.sticker_count >= 0
             /\ b.memes_created >= a.memes_created
             /\ b.quotes_created >= a.quotes_created
             /\ b.sticker_count >= a.sticker_count
             /\ a.known => b.known
             /\ (~a.known /\ b.known)
                   => /\ update'.handler \in {"start", "handle_media"}
                      /\ Activity(user_stats', u) = 0
             /\ (Activity(user_stats', u) # Activity(user_stats, u))
                   => (a.known /\ Activity(user_stats', u)
                                     = Activity(user_stats, u) + 1)
             /\ Handles("memify_image", u)
                   => /\ b.memes_created = a.memes_created
                            + (IF a.known /\ ret'.ok /\ SentSticker THEN 1 ELSE 0)
                      /\ b.quotes_created = a.quotes_created
                      /\ b.sticker_count = a.sticker_count
             /\ Handles("create_quote", u)
                   => /\ b.quotes_created = a.quotes_created
                            + (IF a.known /\ ret'.ok /\ SentSticker THEN 1 ELSE 0)
                      /\ b.memes_created = a.memes_created
                      /\ b.sticker_count = a.sticker_count
             /\ Handles("kang_sticker", u)
                   => /\ b.memes_created = a.memes_created
                      /\ b.quotes_created = a.quotes_created
             /\ (\E h \in {"memify_image", "create_quote", "kang_sticker"},
                    v \in Users \ {u} : Handles(h, v))
                   => b = a
      ]_vars

\* a user's second counted meme, sent after the encoder failed on an
\* earlier one
C23_Witness ==
    /\ pc = "done"
    /\ update.handler = "memify_image"
    /\ replies = <<"processing", "sticker">>
    /\ user_stats[update.user].known
    /\ user_stats[update.user].memes_created = 2
    /\ \E v \in Users : ~user_stats[v].known

\* C25: a /mmf whose downloaded media is larger than MAX_FILE_SIZE is
\* answered with the size error: add_text_to_image is not called, no
\* sticker is sent and no counter changes; media of exactly MAX_FILE_SIZE
\* goes on to add_text_to_image.
C25_OversizedRejected ==
    [][(/\ pc = "idle"
        /\ update'.handler = "memify_image"
        /\ update'.replied.exists
        /\ update'.replied.media # NoImage
        /\ update'.replied.downloads)
       => IF update'.replied.file_size > MAX_FILE_SIZE
          THEN /\ replies' = <<"processing", "too_large">>
               /\ call' = NoCall /\ ret' = NoRet
               /\ user_stats' = user_stats
          ELSE /\ call'.op = "add_text_to_image"
               /\ call'.image = update'.replied.media
               /\ replies'[2] \in {"sticker", "failed"}
      ]_vars

\* a photo one byte over the limit that would have rendered, from a user
\* with an entry
C25_Witness ==
    /\ pc = "done"
    /\ update.handler = "memify_image"
    /\ update.replied.file_size = MAX_FILE_SIZE + 1
    /\ update.replied.media.mode = "RGB"
    /\ user_stats[update.user].known
    /\ replies = <<"processing", "too_large">>
    /\ call = NoCall

\* what a handler answers to a sender it turns away
Denials == {<<"owner_only">>, <<"admins_only">>, <<"access_denied">>}
OwnerOnly == {"broadcast_command", "users_command", "restart_command"}
AdminOnly == {"clone_bot", "stats_command", "admin_panel"}

\* C22: /broadcast, /users and /restart from a sender other than OWNER_ID,
\* and /clone, /stats and the admin_panel button from a sender that is
\* neither in ADMIN_IDS nor the owner, are answered with the denial and
\* nothing else: no broadcast is started, no statistics are shown, the
\* process does not exit.  A broadcast in progress and an exit are the
\* owner's, and a non-zero OWNER_ID is in ADMIN_IDS.
C22_Authorization ==
    /\ config.OWNER_ID # 0 => config.OWNER_ID \in config.ADMIN_IDS
    /\ (update.handler \in OwnerOnly /\ update.user # config.OWNER_ID)
          => /\ replies = <<"owner_only">>
             /\ cast = NoCast
             /\ ~exited
    /\ (/\ update.handler \in AdminOnly
        /\ update.user \notin config.ADMIN_IDS
        /\ update.user # config.OWNER_ID)
          => /\ replies = IF update.handler = "admin_panel"
                          THEN <<"access_denied">> ELSE <<"admins_only">>
             /\ cast = NoCast
             /\ ~exited
    /\ (update.handler \in OwnerOnly \cup AdminOnly /\ pc = "done"
        /\ replies \notin Denials)
          => IF update.handler \in OwnerOnly
             THEN update.user = config.OWNER_ID
             ELSE update.user \in config.ADMIN_IDS \cup {config.OWNER_ID}
    /\ exited => /\ update.handler = "restart_command"
                 /\ update.user = config.OWNER_ID
    /\ cast # NoCast => /\ update.handler = "broadcast_command"
                        /\ update.user = config.OWNER_ID

\* an admin who is not the owner sends /restart and is turned away
C22_Witness ==
    /\ pc = "done"
    /\ update.handler = "restart_command"
    /\ config.OWNER_ID # 0
    /\ update.user # config.OWNER_ID
    /\ update.user \in config.ADMIN_IDS
    /\ replies = <<"owner_only">>
    /\ ~exited

\* the users of the send_message calls of the broadcast, in order
SentTo == [i \in 1..Len(cast.sent) |-> cast.sent[i].user]
\* how many of them ended as ok says
Ended(ok) == Cardinality({i \in 1..Len(cast.sent) : cast.sent[i].ok = ok})

====
